---- MODULE Spec2Model ----
(***************************************************************************)
(* A model of ssm_interpreter.py: the scanner (a generator of tokens), the *)
(* program builder of main(), the validation pass, the fetch-execute loop  *)
(* of Driver.step and the final print of the stack top.                    *)
(*                                                                         *)
(* A word of the source text is the sequence of its pieces: each maximal   *)
(* run of ordinary characters is one piece (a string such as "ildc", "A"   *)
(* or "-7"), and each ":" and each "#" is a piece of its own.  So the word *)
(* A:B:ildc is <<"A", ":", "B", ":", "ildc">>.  A line is a sequence of    *)
(* words and a file a sequence of lines.  Indices into the file, into the  *)
(* instruction list and into a word are 0-based as in the source.          *)
(***************************************************************************)
EXTENDS Integers, Sequences, FiniteSets, TLC

VARIABLES
    file,                    \* the source text read by the Scanner
    gen,                     \* Scanner._gen: where the generator is suspended
    tokens,                  \* history: every (token, is_label) the generator yielded
    unregistered_label,      \* main: the pending label, None or Some(label)
    instructions,            \* Driver.instructions
    label_map,               \* Driver.label_map
    memo,                    \* SSM_jmp._memo
    validate_index,          \* position of the loop of validate_all_instructions
    stack,                   \* Driver.stack: [top: the linked list from the top, size]
    store,                   \* Driver.store
    next_instruction_index,  \* Driver.next_instruction_index
    executed,                \* history: per executed instruction, its index and the stack before it
    pc,                      \* the phase main is in: build, validate, execute, print, done
    exc,                     \* the exception that ended main in that phase, "none" while there is none
    result                   \* what main printed, None or Some(value)

vars == <<file, gen, tokens, unregistered_label, instructions, label_map, memo,
          validate_index, stack, store, next_instruction_index, executed, pc,
          exc, result>>

None == <<>>
Some(x) == <<x>>

----------------------------------------------------------------------------
(* Bounds of the model *)

MaxLines == 3        \* lines of a file of the general specifications
MaxSteps == 6        \* executed instructions explored per run
MaxStoreLines == 5   \* lines of a file of the store/load specification
MaxWords == 4        \* words of a file of the build specification
MaxArithLines == 3   \* lines of a file of the arithmetic specification
MaxLoopLines == 3    \* lines of a file of the loop specification
MaxScanLines == 2    \* lines of a file of the scanner specification
MaxScanWords == 2    \* words of a line of the scanner specification

----------------------------------------------------------------------------
(* Token and the operator registry *)

Token(val, line) == [val |-> val, line |-> line]

\* main: the register_op calls; the value is Operator.args_needed
args_needed ==
    [ildc |-> 1, iadd |-> 0, isub |-> 0, imul |-> 0, idiv |-> 0, imod |-> 0,
     pop |-> 0, dup |-> 0, swap |-> 0, jz |-> 1, jnz |-> 1, jmp |-> 1,
     load |-> 0, store |-> 0]

operators == DOMAIN args_needed

\* isinstance(op, SSM__base_jump)
IsBaseJump(op) == op \in {"jz", "jnz", "jmp"}

\* int(token.val) on the numerals the model uses; any other text is a ValueError
IntOf ==
    [n \in {"0", "1", "2", "5", "7", "-1", "-7", "+1", "01"} |->
        CASE n = "0" -> 0 [] n = "1" -> 1 [] n = "2" -> 2 [] n = "5" -> 5
          [] n = "7" -> 7 [] n = "-1" -> 0 - 1 [] n = "-7" -> 0 - 7
          [] n = "+1" -> 1 [] n = "01" -> 1]

----------------------------------------------------------------------------
(* Scanner *)

RECURSIVE FindFrom(_, _, _)
FindFrom(w, c, k) ==
    IF k > Len(w) THEN 0 - 1
    ELSE IF w[k] = c THEN k - 1
    ELSE FindFrom(w, c, k + 1)

\* mutant: the position of the last c in w (rfind)
Find_last(w, c) ==
    IF \A k \in 1..Len(w) : w[k] # c THEN 0 - 1
    ELSE (CHOOSE k \in 1..Len(w) :
            w[k] = c /\ \A m \in (k + 1)..Len(w) : w[m] # c) - 1

\* str.find: the 0-based position of the first c in w, -1 when there is none
Find(w, c) == FindFrom(w, c, 1)

\* the text of a run of pieces: the pieces joined
RECURSIVE Text(_)
Text(p) == IF Len(p) = 0 THEN "" ELSE p[1] \o Text(Tail(p))

GenInit == [i |-> 0, j |-> 0, w |-> <<>>, seen_comment |-> FALSE, finished |-> FALSE]

\* mutant: seen_comment is not cleared at the start of a line
RECURSIVE GenNext_comment_runs_on(_, _)
GenNext_comment_runs_on(f, g) ==
    IF g.finished THEN [kind |-> "StopIteration", g |-> g]
    ELSE IF Len(g.w) > 0 THEN
        LET colon_i == Find(g.w, ":") IN
        IF colon_i >= 0 THEN
            LET prefix == SubSeq(g.w, 1, colon_i)
                rest   == SubSeq(g.w, colon_i + 2, Len(g.w))
            IN  IF colon_i = 0
                THEN [kind |-> "MissingLabel",
                      g |-> [g EXCEPT !.w = rest, !.finished = TRUE]]
                ELSE [kind |-> "yield", token |-> Token(Text(prefix), g.i),
                      is_label |-> TRUE, g |-> [g EXCEPT !.w = rest]]
        ELSE [kind |-> "yield", token |-> Token(Text(g.w), g.i),
              is_label |-> FALSE, g |-> [g EXCEPT !.w = <<>>]]
    ELSE IF g.i >= Len(f) THEN
        [kind |-> "StopIteration", g |-> [g EXCEPT !.finished = TRUE]]
    ELSE IF g.j >= Len(f[g.i + 1]) THEN
        GenNext_comment_runs_on(f, [g EXCEPT !.i = g.i + 1, !.j = 0])
    ELSE
        LET w  == f[g.i + 1][g.j + 1]
            g1 == [g EXCEPT !.j = g.j + 1]
            hashtag_i == Find(w, "#")
        IN  IF g.seen_comment THEN GenNext_comment_runs_on(f, g1)
            ELSE IF hashtag_i >= 0 THEN
                IF hashtag_i > 0
                THEN GenNext_comment_runs_on(f, [g1 EXCEPT !.seen_comment = TRUE,
                                                 !.w = SubSeq(w, 1, hashtag_i)])
                ELSE GenNext_comment_runs_on(f, [g1 EXCEPT !.seen_comment = TRUE])
            ELSE GenNext_comment_runs_on(f, [g1 EXCEPT !.w = w])

\* next(self._gen): runs the generator from where it is suspended up to its
\* next yield, its end (StopIteration) or its raise of MissingLabel.
\* g.i is the current line, g.j the next word of it, g.w what is left of the
\* current word inside the while loop.
RECURSIVE GenNext(_, _)
GenNext(f, g) ==
    IF g.finished THEN [kind |-> "StopIteration", g |-> g]
    ELSE IF Len(g.w) > 0 THEN
        LET colon_i == Find(g.w, ":") IN
        IF colon_i >= 0 THEN
            LET prefix == SubSeq(g.w, 1, colon_i)
                rest   == SubSeq(g.w, colon_i + 2, Len(g.w))
            IN  IF colon_i = 0
                THEN [kind |-> "MissingLabel",
                      g |-> [g EXCEPT !.w = rest, !.finished = TRUE]]
                ELSE [kind |-> "yield", token |-> Token(Text(prefix), g.i),
                      is_label |-> TRUE, g |-> [g EXCEPT !.w = rest]]
        ELSE [kind |-> "yield", token |-> Token(Text(g.w), g.i),
              is_label |-> FALSE, g |-> [g EXCEPT !.w = <<>>]]
    ELSE IF g.i >= Len(f) THEN
        [kind |-> "StopIteration", g |-> [g EXCEPT !.finished = TRUE]]
    ELSE IF g.j >= Len(f[g.i + 1]) THEN
        GenNext(f, [g EXCEPT !.i = g.i + 1, !.j = 0, !.seen_comment = FALSE])
    ELSE
        LET w  == f[g.i + 1][g.j + 1]
            g1 == [g EXCEPT !.j = g.j + 1]
            hashtag_i == Find(w, "#")
        IN  IF g.seen_comment THEN GenNext(f, g1)
            ELSE IF hashtag_i >= 0 THEN
                IF hashtag_i > 0
                THEN GenNext(f, [g1 EXCEPT !.seen_comment = TRUE,
                                           !.w = SubSeq(w, 1, hashtag_i)])
                ELSE GenNext(f, [g1 EXCEPT !.seen_comment = TRUE])
            ELSE GenNext(f, [g1 EXCEPT !.w = w])

\* mutant: next_args takes a label token as an operand
RECURSIVE next_args_accepts_labels(_, _, _)
next_args_accepts_labels(f, g, n) ==
    IF n = 0 THEN [exc |-> "none", args |-> <<>>, g |-> g, yielded |-> <<>>]
    ELSE
        LET r == GenNext(f, g) IN
        IF r.kind # "yield"
        THEN [exc |-> r.kind, args |-> <<>>, g |-> r.g, yielded |-> <<>>]
        ELSE
            LET more == next_args_accepts_labels(f, r.g, n - 1) IN
            [exc |-> more.exc, args |-> <<r.token>> \o more.args, g |-> more.g,
             yielded |-> <<[token |-> r.token, is_label |-> r.is_label]>>
                            \o more.yielded]

\* Scanner.next_args: n tokens, none of them a label
RECURSIVE next_args(_, _, _)
next_args(f, g, n) ==
    IF n = 0 THEN [exc |-> "none", args |-> <<>>, g |-> g, yielded |-> <<>>]
    ELSE
        LET r == GenNext(f, g) IN
        IF r.kind # "yield"
        THEN [exc |-> r.kind, args |-> <<>>, g |-> r.g, yielded |-> <<>>]
        ELSE IF r.is_label
        THEN [exc |-> "ExpectedNonLabel", args |-> <<>>, g |-> r.g,
              yielded |-> <<[token |-> r.token, is_label |-> TRUE]>>]
        ELSE
            LET more == next_args(f, r.g, n - 1) IN
            [exc |-> more.exc, args |-> <<r.token>> \o more.args, g |-> more.g,
             yielded |-> <<[token |-> r.token, is_label |-> FALSE]>> \o more.yielded]

----------------------------------------------------------------------------
(* Driver: the build *)

has_label(lm, label) == label \in DOMAIN lm

\* dict item assignment
Put(m, k, v) == [x \in DOMAIN m \cup {k} |-> IF x = k THEN v ELSE m[x]]

EmptyMap == [x \in {} |-> 0]

\* Operator.process_args; SSM_ildc overrides it and rewrites the token in place
process_args(op, args) ==
    IF op = "ildc"
    THEN IF args[1].val \in DOMAIN IntOf
         THEN [exc |-> "none", args |-> <<[args[1] EXCEPT !.val = IntOf[args[1].val]]>>]
         ELSE [exc |-> "InvalidInteger", args |-> args]
    ELSE [exc |-> "none", args |-> args]

\* mutant: the label is given the length of the list after the append
add_instruction_label_after_append(ins, lm, op, args, label) ==
    LET lm1 == IF label # None THEN Put(lm, label[1], Len(ins) + 1) ELSE lm
        p   == process_args(op, args)
    IN  IF p.exc # "none"
        THEN [exc |-> p.exc, instructions |-> ins, label_map |-> lm]
        ELSE [exc |-> "none", label_map |-> lm1,
              instructions |-> Append(ins, [op |-> op, args |-> p.args])]

\* Driver.add_instruction: the label is recorded before process_args runs
add_instruction(ins, lm, op, args, label) ==
    LET lm1 == IF label # None THEN Put(lm, label[1], Len(ins)) ELSE lm
        p   == process_args(op, args)
    IN  IF p.exc # "none"
        THEN [exc |-> p.exc, instructions |-> ins, label_map |-> lm1]
        ELSE [exc |-> "none", label_map |-> lm1,
              instructions |-> Append(ins, [op |-> op, args |-> p.args])]

----------------------------------------------------------------------------
(* Stack *)

EmptyStackObj == [top |-> <<>>, size |-> 0]

\* Stack.push
push(s, val) == [top |-> <<val>> \o s.top, size |-> s.size + 1]

\* mutant: no test for the empty stack, None has no attribute next
pop_unchecked(s) ==
    IF s.top = <<>>
    THEN [exc |-> "AttributeError", stack |-> s]
    ELSE [exc |-> "none", val |-> Head(s.top),
          stack |-> [top |-> Tail(s.top), size |-> s.size]]

\* Stack.pop: the size field is left as it is
pop(s) ==
    IF s.top = <<>>
    THEN [exc |-> "EmptyStack", stack |-> s]
    ELSE [exc |-> "none", val |-> Head(s.top),
          stack |-> [top |-> Tail(s.top), size |-> s.size]]

\* Stack.peek
peek(s) ==
    IF s.top = <<>>
    THEN [exc |-> "EmptyStack", stack |-> s]
    ELSE [exc |-> "none", val |-> Head(s.top), stack |-> s]

----------------------------------------------------------------------------
(* Operators: execute.  d is the driver state an operator touches,         *)
(* [stack, store, next_instruction_index]; the outcome is the driver state *)
(* left behind, the value returned (ret: go to the next line or not) and   *)
(* the exception raised, "none" when execute returned.                     *)

Returns(d, ret) ==
    [stack |-> d.stack, store |-> d.store,
     next_instruction_index |-> d.next_instruction_index,
     ret |-> ret, exc |-> "none"]

Raises(d, e) ==
    [stack |-> d.stack, store |-> d.store,
     next_instruction_index |-> d.next_instruction_index,
     ret |-> FALSE, exc |-> e]

\* mutant: the quotient is rounded toward zero
FloorDiv_truncates(b, a) ==
    LET n == IF b >= 0 THEN b ELSE 0 - b
        m == IF a > 0 THEN a ELSE 0 - a
    IN  IF (b >= 0) = (a > 0) THEN n \div m ELSE 0 - (n \div m)

\* Python's b // a for a # 0
FloorDiv(b, a) ==
    LET n == IF a > 0 THEN b ELSE 0 - b
        m == IF a > 0 THEN a ELSE 0 - a
    IN  IF n >= 0 THEN n \div m ELSE 0 - ((m - 1 - n) \div m)

\* Python's b % a for a # 0
FloorMod(b, a) == b - a * FloorDiv(b, a)

\* a = driver.stack.pop(); b = driver.stack.pop()
pop2(d) ==
    LET pa == pop(d.stack) IN
    IF pa.exc # "none" THEN [exc |-> pa.exc, d |-> d]
    ELSE
        LET pb == pop(pa.stack) IN
        IF pb.exc # "none"
        THEN [exc |-> pb.exc, d |-> [d EXCEPT !.stack = pa.stack]]
        ELSE [exc |-> "none", a |-> pa.val, b |-> pb.val,
              d |-> [d EXCEPT !.stack = pb.stack]]

\* Driver.jump_to_label
jump_to_label(d, lm, label) == [d EXCEPT !.next_instruction_index = lm[label]]

SSM_ildc_execute(args, d) ==
    Returns([d EXCEPT !.stack = push(d.stack, args[1].val)], TRUE)

SSM_iadd_execute(d) ==
    LET p == pop2(d) IN
    IF p.exc # "none" THEN Raises(p.d, p.exc)
    ELSE Returns([p.d EXCEPT !.stack = push(p.d.stack, p.a + p.b)], TRUE)

SSM_isub_execute(d) ==
    LET p == pop2(d) IN
    IF p.exc # "none" THEN Raises(p.d, p.exc)
    ELSE Returns([p.d EXCEPT !.stack = push(p.d.stack, p.b - p.a)], TRUE)

SSM_imul_execute(d) ==
    LET p == pop2(d) IN
    IF p.exc # "none" THEN Raises(p.d, p.exc)
    ELSE Returns([p.d EXCEPT !.stack = push(p.d.stack, p.a * p.b)], TRUE)

SSM_idiv_execute(d) ==
    LET p == pop2(d) IN
    IF p.exc # "none" THEN Raises(p.d, p.exc)
    ELSE IF p.a = 0 THEN Raises(p.d, "ZeroDivisionError")
    ELSE Returns([p.d EXCEPT !.stack = push(p.d.stack, FloorDiv(p.b, p.a))], TRUE)

SSM_imod_execute(d) ==
    LET p == pop2(d) IN
    IF p.exc # "none" THEN Raises(p.d, p.exc)
    ELSE IF p.a = 0 THEN Raises(p.d, "ZeroDivisionError")
    ELSE Returns([p.d EXCEPT !.stack = push(p.d.stack, FloorMod(p.b, p.a))], TRUE)

SSM_pop_execute(d) ==
    LET p == pop(d.stack) IN
    IF p.exc # "none" THEN Raises(d, p.exc)
    ELSE Returns([d EXCEPT !.stack = p.stack], TRUE)

SSM_dup_execute(d) ==
    LET p == peek(d.stack) IN
    IF p.exc # "none" THEN Raises(d, p.exc)
    ELSE Returns([d EXCEPT !.stack = push(d.stack, p.val)], TRUE)

SSM_swap_execute(d) ==
    LET p == pop2(d) IN
    IF p.exc # "none" THEN Raises(p.d, p.exc)
    ELSE Returns([p.d EXCEPT !.stack = push(push(p.d.stack, p.a), p.b)], TRUE)

\* mutant: jz returns True after it jumped
SSM_jz_execute_returns_true(args, d, lm) ==
    LET p == pop(d.stack) IN
    IF p.exc # "none" THEN Raises(d, p.exc)
    ELSE IF p.val = 0
    THEN Returns(jump_to_label([d EXCEPT !.stack = p.stack], lm, args[1].val), TRUE)
    ELSE Returns([d EXCEPT !.stack = p.stack], TRUE)

SSM_jz_execute(args, d, lm) ==
    LET p == pop(d.stack) IN
    IF p.exc # "none" THEN Raises(d, p.exc)
    ELSE IF p.val = 0
    THEN Returns(jump_to_label([d EXCEPT !.stack = p.stack], lm, args[1].val), FALSE)
    ELSE Returns([d EXCEPT !.stack = p.stack], TRUE)

SSM_jnz_execute(args, d, lm) ==
    LET p == pop(d.stack) IN
    IF p.exc # "none" THEN Raises(d, p.exc)
    ELSE IF p.val # 0
    THEN Returns(jump_to_label([d EXCEPT !.stack = p.stack], lm, args[1].val), FALSE)
    ELSE Returns([d EXCEPT !.stack = p.stack], TRUE)

\* mutant: the pointer is advanced after the jump
SSM_jmp_execute_returns_true(args, d, lm) ==
    Returns(jump_to_label(d, lm, args[1].val), TRUE)

SSM_jmp_execute(args, d, lm) ==
    Returns(jump_to_label(d, lm, args[1].val), FALSE)

\* value = driver.store[key] raises KeyError for an absent key
SSM_load_execute(d) ==
    LET p == pop(d.stack) IN
    IF p.exc # "none" THEN Raises(d, p.exc)
    ELSE IF p.val \notin DOMAIN d.store
    THEN Raises([d EXCEPT !.stack = p.stack], "KeyError")
    ELSE Returns([d EXCEPT !.stack = push(p.stack, d.store[p.val])], TRUE)

\* driver.stack[key] = value: Stack defines no item assignment, so the
\* statement raises TypeError and the store is not written
SSM_store_execute(d) ==
    LET p == pop2(d) IN
    IF p.exc # "none" THEN Raises(p.d, p.exc)
    ELSE Raises(p.d, "TypeError")

\* op.execute(args, self)
execute(op, args, d, lm) ==
    CASE op = "ildc"  -> SSM_ildc_execute(args, d)
      [] op = "iadd"  -> SSM_iadd_execute(d)
      [] op = "isub"  -> SSM_isub_execute(d)
      [] op = "imul"  -> SSM_imul_execute(d)
      [] op = "idiv"  -> SSM_idiv_execute(d)
      [] op = "imod"  -> SSM_imod_execute(d)
      [] op = "pop"   -> SSM_pop_execute(d)
      [] op = "dup"   -> SSM_dup_execute(d)
      [] op = "swap"  -> SSM_swap_execute(d)
      [] op = "jz"    -> SSM_jz_execute(args, d, lm)
      [] op = "jnz"   -> SSM_jnz_execute(args, d, lm)
      [] op = "jmp"   -> SSM_jmp_execute(args, d, lm)
      [] op = "load"  -> SSM_load_execute(d)
      [] op = "store" -> SSM_store_execute(d)

----------------------------------------------------------------------------
(* Operators: validate_args *)

\* mutant: only the instruction at index i is inspected
ScanForLoop_single(ins, label, i) ==
    /\ i < Len(ins)
    /\ ins[i + 1].op = "jmp"
    /\ ins[i + 1].args[1].val = label

\* the for loop of _check_for_definite_infinite_loop from index i on: it
\* passes over the instructions that are no jumps and stops at the first
\* jump, which decides
\* mutant: the scan goes on past jz and jnz
RECURSIVE ScanForLoop_passes_conditionals(_, _, _)
ScanForLoop_passes_conditionals(ins, label, i) ==
    IF i >= Len(ins) THEN FALSE
    ELSE IF ins[i + 1].op = "jmp"
    THEN ins[i + 1].args[1].val = label
    ELSE ScanForLoop_passes_conditionals(ins, label, i + 1)

RECURSIVE ScanForLoop(_, _, _)
ScanForLoop(ins, label, i) ==
    IF i >= Len(ins) THEN FALSE
    ELSE IF IsBaseJump(ins[i + 1].op)
    THEN ins[i + 1].op = "jmp" /\ ins[i + 1].args[1].val = label
    ELSE ScanForLoop(ins, label, i + 1)

\* mutant: the scan starts one past the index of the label
check_for_definite_infinite_loop_off_by_one(label, ins, lm, mm) ==
    IF label \in DOMAIN mm
    THEN [verdict |-> mm[label], memo |-> mm]
    ELSE LET v == ScanForLoop(ins, label, lm[label] + 1)
         IN  [verdict |-> v, memo |-> Put(mm, label, v)]

\* SSM_jmp._check_for_definite_infinite_loop: the verdict and the memo it leaves
\* mutant: the memo is looked up without regard to the label
check_for_definite_infinite_loop_one_memo(label, ins, lm, mm) ==
    IF DOMAIN mm # {}
    THEN [verdict |-> mm[CHOOSE l \in DOMAIN mm : TRUE], memo |-> mm]
    ELSE LET v == ScanForLoop(ins, label, lm[label])
         IN  [verdict |-> v, memo |-> Put(mm, label, v)]

check_for_definite_infinite_loop(label, ins, lm, mm) ==
    IF label \in DOMAIN mm
    THEN [verdict |-> mm[label], memo |-> mm]
    ELSE LET v == ScanForLoop(ins, label, lm[label])
         IN  [verdict |-> v, memo |-> Put(mm, label, v)]

\* SSM__base_jump.validate_args
base_jump_validate_args(args, lm) ==
    IF ~has_label(lm, args[1].val) THEN "UnknownLabel" ELSE "none"

\* SSM_jmp.validate_args
SSM_jmp_validate_args(args, ins, lm, mm) ==
    IF base_jump_validate_args(args, lm) # "none"
    THEN [exc |-> base_jump_validate_args(args, lm), memo |-> mm]
    ELSE LET c == check_for_definite_infinite_loop(args[1].val, ins, lm, mm)
         IN  [exc |-> IF c.verdict THEN "LabelInfiniteLoop" ELSE "none",
              memo |-> c.memo]

\* mutant: jz and jnz inherit the validate_args of Operator, which checks nothing
validate_args_jmp_only(op, args, ins, lm, mm) ==
    IF op = "jmp" THEN SSM_jmp_validate_args(args, ins, lm, mm)
    ELSE [exc |-> "none", memo |-> mm]

\* op.validate_args(args, self)
validate_args(op, args, ins, lm, mm) ==
    IF op = "jmp" THEN SSM_jmp_validate_args(args, ins, lm, mm)
    ELSE IF IsBaseJump(op)
    THEN [exc |-> base_jump_validate_args(args, lm), memo |-> mm]
    ELSE [exc |-> "none", memo |-> mm]

----------------------------------------------------------------------------
(* main and Driver: what one pass of each loop does *)

\* mutant: no test whether the label is already in the label table
label_token_no_duplicate_test(token, ul, lm) ==
    IF ul # None THEN [exc |-> "ExpectedNonLabel", unregistered_label |-> ul]
    ELSE [exc |-> "none", unregistered_label |-> Some(token.val)]

\* mutant: a label token replaces the pending label
label_token_overwrites(token, ul, lm) ==
    IF has_label(lm, token.val)
    THEN [exc |-> "DuplicateLabel", unregistered_label |-> ul]
    ELSE [exc |-> "none", unregistered_label |-> Some(token.val)]

\* main, lines 480-489: a label token arrives while ul is the pending label
label_token(token, ul, lm) ==
    IF ul # None THEN [exc |-> "ExpectedNonLabel", unregistered_label |-> ul]
    ELSE IF has_label(lm, token.val)
    THEN [exc |-> "DuplicateLabel", unregistered_label |-> ul]
    ELSE [exc |-> "none", unregistered_label |-> Some(token.val)]

\* One pass of the while True loop of main that reads the file: the outcome
\* is the exception that leaves main ("none" when there is none), whether
\* the loop was left by break, and the builder state after the pass.
main_loop_iteration(f, g, ul, ins, lm) ==
    LET r == GenNext(f, g)
        out(e, brk, g2, ul2, ins2, lm2, y) ==
            [exc |-> e, break |-> brk, g |-> g2, unregistered_label |-> ul2,
             instructions |-> ins2, label_map |-> lm2, yielded |-> y]
    IN
    IF r.kind = "StopIteration" THEN out("none", TRUE, r.g, ul, ins, lm, <<>>)
    ELSE IF r.kind = "MissingLabel" THEN out("MissingLabel", FALSE, r.g, ul, ins, lm, <<>>)
    ELSE
        LET y1 == <<[token |-> r.token, is_label |-> r.is_label]>> IN
        IF r.is_label THEN
            LET lt == label_token(r.token, ul, lm)
            IN  out(lt.exc, FALSE, r.g, lt.unregistered_label, ins, lm, y1)
        ELSE IF r.token.val \notin operators
        THEN out("UnknownInstruction", FALSE, r.g, ul, ins, lm, y1)
        ELSE
            LET op == r.token.val
                a  == next_args(f, r.g, args_needed[op])
                y2 == y1 \o a.yielded
            IN
            IF a.exc = "StopIteration"
            THEN out("MissingArguments", FALSE, a.g, ul, ins, lm, y2)
            ELSE IF a.exc # "none" THEN out(a.exc, FALSE, a.g, ul, ins, lm, y2)
            ELSE
                LET ai == add_instruction(ins, lm, op, a.args, ul) IN
                IF ai.exc # "none"
                THEN out(ai.exc, FALSE, a.g, ul, ai.instructions, ai.label_map, y2)
                ELSE out("none", FALSE, a.g, None, ai.instructions, ai.label_map, y2)

\* mutant: the index advances when execute returned False
step_inverted_return(d, ins, lm) ==
    LET ins_i == ins[d.next_instruction_index + 1]
        o     == execute(ins_i.op, ins_i.args, d, lm)
    IN  IF o.exc = "none" /\ ~o.ret
        THEN [o EXCEPT !.next_instruction_index = o.next_instruction_index + 1]
        ELSE o

\* Driver.step when the index is inside the list: the instruction is run and
\* the index advances when execute returned True
step(d, ins, lm) ==
    LET ins_i == ins[d.next_instruction_index + 1]
        o     == execute(ins_i.op, ins_i.args, d, lm)
    IN  IF o.exc = "none" /\ o.ret
        THEN [o EXCEPT !.next_instruction_index = o.next_instruction_index + 1]
        ELSE o

----------------------------------------------------------------------------
(* The state machine *)

InitWith(Files) ==
    /\ file \in Files
    /\ gen = GenInit
    /\ tokens = <<>>
    /\ unregistered_label = None
    /\ instructions = <<>>
    /\ label_map = EmptyMap
    /\ memo = EmptyMap
    /\ validate_index = 0
    /\ stack = EmptyStackObj
    /\ store = EmptyMap
    /\ next_instruction_index = 0
    /\ executed = <<>>
    /\ pc = "build"
    /\ exc = "none"
    /\ result = None

\* mutant: validation starts after the loop without the test of lines 510-511
BuildStep_no_dangling_test ==
    /\ pc = "build" /\ exc = "none"
    /\ LET b == main_loop_iteration(file, gen, unregistered_label,
                                    instructions, label_map)
       IN  /\ gen' = b.g
           /\ tokens' = tokens \o b.yielded
           /\ unregistered_label' = b.unregistered_label
           /\ instructions' = b.instructions
           /\ label_map' = b.label_map
           /\ exc' = b.exc
           /\ pc' = IF b.exc = "none" /\ b.break THEN "validate" ELSE pc
    /\ UNCHANGED <<file, memo, validate_index, stack, store,
                   next_instruction_index, executed, result>>

\* main, lines 476-511: one pass of the reading loop; on break the dangling
\* label test, after which validation starts
BuildStep ==
    /\ pc = "build" /\ exc = "none"
    /\ LET b == main_loop_iteration(file, gen, unregistered_label,
                                    instructions, label_map)
       IN  /\ gen' = b.g
           /\ tokens' = tokens \o b.yielded
           /\ unregistered_label' = b.unregistered_label
           /\ instructions' = b.instructions
           /\ label_map' = b.label_map
           /\ IF b.exc # "none" THEN pc' = pc /\ exc' = b.exc
              ELSE IF ~b.break THEN pc' = pc /\ exc' = exc
              ELSE IF b.unregistered_label # None
              THEN pc' = pc /\ exc' = "DanglingLabel"
              ELSE pc' = "validate" /\ exc' = exc
    /\ UNCHANGED <<file, memo, validate_index, stack, store,
                   next_instruction_index, executed, result>>

\* Driver.validate_all_instructions: one pass of its loop, or its end
ValidateStep ==
    /\ pc = "validate" /\ exc = "none"
    /\ IF validate_index >= Len(instructions)
       THEN /\ pc' = "execute"
            /\ UNCHANGED <<memo, validate_index, exc>>
       ELSE LET ins_i == instructions[validate_index + 1]
                v == validate_args(ins_i.op, ins_i.args, instructions,
                                   label_map, memo)
            IN  /\ memo' = v.memo
                /\ IF v.exc # "none"
                   THEN pc' = pc /\ exc' = v.exc
                        /\ UNCHANGED validate_index
                   ELSE pc' = pc /\ exc' = exc
                        /\ validate_index' = validate_index + 1
    /\ UNCHANGED <<file, gen, tokens, unregistered_label, instructions,
                   label_map, stack, store, next_instruction_index, executed,
                   result>>

\* main, lines 517-519 with Driver.step returning True
Step ==
    /\ pc = "execute" /\ exc = "none"
    /\ next_instruction_index < Len(instructions)
    /\ Len(executed) < MaxSteps
    /\ LET o == step([stack |-> stack, store |-> store,
                      next_instruction_index |-> next_instruction_index],
                     instructions, label_map)
       IN  /\ stack' = o.stack
           /\ store' = o.store
           /\ next_instruction_index' = o.next_instruction_index
           /\ executed' = Append(executed, [index |-> next_instruction_index,
                                            stack |-> stack])
           /\ pc' = pc
           /\ exc' = o.exc
    /\ UNCHANGED <<file, gen, tokens, unregistered_label, instructions,
                   label_map, memo, validate_index, result>>

\* mutant: an empty stack at the end prints nothing and raises nothing
Halt_ignores_empty ==
    /\ pc = "execute" /\ exc = "none"
    /\ next_instruction_index >= Len(instructions)
    /\ IF stack.top = <<>>
       THEN stack' = stack /\ result' = result
       ELSE stack' = pop(stack).stack /\ result' = Some(pop(stack).val)
    /\ pc' = "done"
    /\ UNCHANGED <<file, gen, tokens, unregistered_label, instructions,
                   label_map, memo, validate_index, store,
                   next_instruction_index, executed, exc>>

\* main, lines 517-523 with Driver.step returning False: the loop is left
\* and print(driver.stack.pop()) runs
Halt ==
    /\ pc = "execute" /\ exc = "none"
    /\ next_instruction_index >= Len(instructions)
    /\ LET p == pop(stack)
       IN  /\ stack' = p.stack
           /\ IF p.exc # "none"
              THEN pc' = "print" /\ exc' = p.exc /\ result' = result
              ELSE pc' = "done" /\ exc' = exc /\ result' = Some(p.val)
    /\ UNCHANGED <<file, gen, tokens, unregistered_label, instructions,
                   label_map, memo, validate_index, store,
                   next_instruction_index, executed>>

Next == BuildStep \/ ValidateStep \/ Step \/ Halt

\* A caller that only reads the Scanner: one call of Scanner.next_token,
\* which yields a token, ends the stream or raises MissingLabel
ScanToken ==
    /\ pc = "scan" /\ exc = "none"
    /\ LET r == GenNext(file, gen)
       IN  /\ gen' = r.g
           /\ tokens' = IF r.kind = "yield"
                        THEN Append(tokens, [token |-> r.token,
                                             is_label |-> r.is_label])
                        ELSE tokens
           /\ exc' = IF r.kind = "MissingLabel" THEN "MissingLabel" ELSE exc
           /\ pc' = IF r.kind = "StopIteration" THEN "scanned" ELSE pc
    /\ UNCHANGED <<file, unregistered_label, instructions, label_map, memo,
                   validate_index, stack, store, next_instruction_index,
                   executed, result>>

----------------------------------------------------------------------------
(* Source texts *)

\* the files of at most n lines, each line taken from Lines
RECURSIVE FilesOf(_, _)
FilesOf(Lines, n) ==
    IF n = 0 THEN {<<>>}
    ELSE LET shorter == FilesOf(Lines, n - 1)
         IN  shorter \cup {Append(f, l) : f \in shorter, l \in Lines}

Word(text) == <<text>>
LabelWord(name) == <<name, ":">>

\* the line "[label:] op [operand]"
Line(labels, op, operands) ==
    [k \in 1..Len(labels) |-> LabelWord(labels[k])] \o <<Word(op)>>
        \o [k \in 1..Len(operands) |-> Word(operands[k])]

\* jump programs: pushes of 0 and 1 and the three jumps, each line with no
\* label, label A or label B
JumpLines ==
    { Line(l, i[1], <<i[2]>>) :
        l \in {<<>>, <<"A">>, <<"B">>},
        i \in {<<"ildc", "0">>, <<"ildc", "1">>, <<"jmp", "A">>, <<"jmp", "B">>,
               <<"jz", "A">>, <<"jnz", "A">>} }

InitJump == InitWith(FilesOf(JumpLines, MaxLines))
SpecJump == InitJump /\ [][Next]_vars

\* stack programs: every instruction that is no jump, the two conditional
\* jumps to A, and a line that defines A
DataLines ==
    { Line(<<>>, op, <<>>) :
        op \in {"iadd", "isub", "imul", "idiv", "imod", "pop", "dup", "swap",
                "load", "store"} }
    \cup { Line(<<>>, "ildc", <<"0">>), Line(<<>>, "ildc", <<"5">>),
           Line(<<"A">>, "ildc", <<"0">>),
           Line(<<>>, "jz", <<"A">>), Line(<<>>, "jnz", <<"A">>) }

InitData == InitWith(FilesOf(DataLines, MaxLines))
SpecData == InitData /\ [][Next]_vars

\* store and load programs
StoreLines ==
    { Line(<<>>, "ildc", <<"1">>), Line(<<>>, "ildc", <<"2">>),
      Line(<<>>, "store", <<>>), Line(<<>>, "load", <<>>) }

InitStore == InitWith(FilesOf(StoreLines, MaxStoreLines))
SpecStore == InitStore /\ [][Next]_vars

\* arithmetic programs: pushes of 7, 2, -7 and 0 and the five binary operators
ArithLines ==
    { Line(<<>>, "ildc", <<n>>) : n \in {"7", "2", "-7", "0"} }
    \cup { Line(<<>>, op, <<>>) : op \in {"iadd", "isub", "imul", "idiv", "imod"} }

InitArith == InitWith(FilesOf(ArithLines, MaxArithLines))
SpecArith == InitArith /\ [][Next]_vars

\* loop programs: a push, a pop, jmp A and jz B, each line with no label,
\* label A or label B
LoopLines ==
    { Line(l, i[1], i[2]) :
        l \in {<<>>, <<"A">>, <<"B">>},
        i \in {<<"ildc", <<"0">>>>, <<"pop", <<>>>>, <<"jmp", <<"A">>>>,
               <<"jz", <<"B">>>>} }

InitLoop == InitWith(FilesOf(LoopLines, MaxLoopLines))
SpecLoop == InitLoop /\ [][Next]_vars

\* scanner texts: lines of at most MaxScanWords words with chained labels,
\* empty label names and comments
ScanWords ==
    { LabelWord("A"), <<"A", ":", "B", ":", "ildc">>,
      <<":", "x">>, <<"A", ":", ":", "x">>, <<"#", "c">>,
      <<"A", ":", "x", "#", "B", ":">> }

ScanFiles == FilesOf(FilesOf(ScanWords, MaxScanWords), MaxScanLines)

InitScan ==
    /\ file \in ScanFiles
    /\ gen = GenInit
    /\ tokens = <<>>
    /\ unregistered_label = None
    /\ instructions = <<>>
    /\ label_map = EmptyMap
    /\ memo = EmptyMap
    /\ validate_index = 0
    /\ stack = EmptyStackObj
    /\ store = EmptyMap
    /\ next_instruction_index = 0
    /\ executed = <<>>
    /\ pc = "scan"
    /\ exc = "none"
    /\ result = None

SpecScan == InitScan /\ [][ScanToken]_vars

\* texts of one line of at most MaxWords words, with labels written as
\* words of their own and chained inside one word
BuildWords ==
    { LabelWord("A"), LabelWord("B"), <<"A", ":", "B", ":">>,
      <<"A", ":", "B", ":", "ildc">>, Word("ildc"), Word("5"), Word("pop"),
      Word("jmp"), Word("A") }

OneLine(ws) == IF ws = <<>> THEN <<>> ELSE <<ws>>

InitBuild == InitWith({ OneLine(ws) : ws \in FilesOf(BuildWords, MaxWords) })
SpecBuild == InitBuild /\ [][Next]_vars

----------------------------------------------------------------------------
(* Vocabulary of the properties *)

NumInstructions == Len(instructions)
OpAt(i) == instructions[i + 1].op
ArgAt(i) == instructions[i + 1].args[1].val
Indices == 0..(NumInstructions - 1)

\* the build ended without an exception; validation ended without one
Built == pc # "build"
Validated == pc \in {"execute", "print", "done"}

\* nothing of the execution phase has happened
NothingExecuted ==
    /\ next_instruction_index = 0
    /\ stack.top = <<>>
    /\ store = EmptyMap
    /\ executed = <<>>
    /\ result = None

\* the last executed instruction: its index, its operator, the stack it found
NumExecuted == Len(executed)
LastIndex == executed[NumExecuted].index
LastOp == OpAt(LastIndex)
StackBefore(k) == executed[k].stack

----------------------------------------------------------------------------
(* C1: store then load of the same key *)

RoundTripFile(k, v) ==
    << Line(<<>>, "ildc", <<k>>), Line(<<>>, "ildc", <<v>>),
       Line(<<>>, "store", <<>>), Line(<<>>, "ildc", <<k>>),
       Line(<<>>, "load", <<>>) >>

\* C1: the program ildc k; ildc v; store; ildc k; load runs without an
\* exception, its store instruction records store[k] = v, it halts with v
\* on top of the stack and v is the result.
C1_StoreLoadRoundTrip ==
    \A k \in {"1", "2"}, v \in {"1", "2"} :
        file = RoundTripFile(k, v) =>
            /\ exc = "none"
            /\ NumExecuted >= 3 => store = Put(EmptyMap, IntOf[k], IntOf[v])
            /\ (pc = "execute" /\ NumExecuted = 5) =>
                   /\ next_instruction_index = 5
                   /\ stack.top # <<>>
                   /\ Head(stack.top) = IntOf[v]
            /\ pc = "done" => result = Some(IntOf[v])

----------------------------------------------------------------------------
(* C7: dup then pop *)

\* C7: when dup ran on a non-empty stack and pop ran right after it, the
\* Stack is as it was before the dup: the same values and the same size
\* field, and the size field is the number of values held, before and after.
C7_DupPopRestoresStack ==
    ( /\ pc = "execute"
      /\ NumExecuted >= 2
      /\ OpAt(executed[NumExecuted - 1].index) = "dup"
      /\ LastOp = "pop"
      /\ StackBefore(NumExecuted - 1).top # <<>> )
    => LET before == StackBefore(NumExecuted - 1)
       IN  /\ exc = "none"
           /\ stack.top = before.top
           /\ stack.size = before.size
           /\ before.size = Len(before.top)
           /\ stack.size = Len(stack.top)

----------------------------------------------------------------------------
(* Vocabulary of the validation properties *)

JumpIndices == {i \in Indices : IsBaseJump(OpAt(i))}

\* the jump at index i names a label that is in the label table
LabelKnown(i) == ArgAt(i) \in DOMAIN label_map
AllLabelsDefined == \A i \in JumpIndices : LabelKnown(i)

\* index i holds "jmp L" and L points to index i
IsSelfJmp(i) == OpAt(i) = "jmp" /\ LabelKnown(i) /\ label_map[ArgAt(i)] = i
SelfJmps == {i \in Indices : IsSelfJmp(i)}

\* the instruction label L points to is "jmp L"
TargetIsJmpTo(L) ==
    /\ label_map[L] \in Indices
    /\ OpAt(label_map[L]) = "jmp"
    /\ ArgAt(label_map[L]) = L

\* the first jump at or after the index of L is "jmp L"
FirstJumpIsJmpTo(L) ==
    \E j \in Indices :
        /\ j >= label_map[L]
        /\ OpAt(j) = "jmp" /\ ArgAt(j) = L
        /\ \A k \in label_map[L]..(j - 1) : ~IsBaseJump(OpAt(k))

\* validation stopped at index i with this exception; validation went past i
FailedAt(i, e) == pc = "validate" /\ exc = e /\ validate_index = i
Passed(i) == Built /\ validate_index > i

\* the validation pass is over, with or without an exception
ValidationOver == Validated \/ (pc = "validate" /\ exc # "none")

----------------------------------------------------------------------------
(* C2: L: jmp L *)

\* C2: in a program that was built, whose jumps all name defined labels and
\* that holds a "jmp L" at the index of L, validation never gets past that
\* instruction and never ends well, the only exception it raises is
\* LabelInfiniteLoop, and nothing has executed.
C2_SelfJmpFailsValidation ==
    (Built /\ AllLabelsDefined /\ SelfJmps # {}) =>
        /\ pc = "validate"
        /\ exc \in {"none", "LabelInfiniteLoop"}
        /\ \A i \in SelfJmps : validate_index <= i
        /\ NothingExecuted

\* a self jump that no execution could reach is the one reported
C2_Witness ==
    /\ FailedAt(1, "LabelInfiniteLoop")
    /\ IsSelfJmp(1)
    /\ OpAt(0) = "jmp" /\ LabelKnown(0) /\ label_map[ArgAt(0)] = 2
    /\ NothingExecuted

----------------------------------------------------------------------------
(* C3: what the infinite-loop check inspects *)

\* C3 as stated: a "jmp L" with L defined is reported as LabelInfiniteLoop
\* exactly when the single instruction at the index of L is "jmp L".
C3_SingleInstructionInspected ==
    \A i \in Indices :
        (Built /\ OpAt(i) = "jmp" /\ LabelKnown(i)) =>
            /\ FailedAt(i, "LabelInfiniteLoop") => TargetIsJmpTo(ArgAt(i))
            /\ Passed(i) => ~TargetIsJmpTo(ArgAt(i))

\* C3 amended: a "jmp L" with L defined is reported as LabelInfiniteLoop
\* exactly when the first jump at or after the index of L, reached over
\* instructions that are no jumps, is "jmp L"; so a conditional jump or a
\* jmp to another label at the index of L means no report.
C3_FirstJumpInspected ==
    \A i \in Indices :
        (Built /\ OpAt(i) = "jmp" /\ LabelKnown(i)) =>
            /\ FailedAt(i, "LabelInfiniteLoop") => FirstJumpIsJmpTo(ArgAt(i))
            /\ Passed(i) => ~FirstJumpIsJmpTo(ArgAt(i))
            /\ ( /\ IsBaseJump(OpAt(label_map[ArgAt(i)]))
                 /\ ~TargetIsJmpTo(ArgAt(i)) )
               => ~FailedAt(i, "LabelInfiniteLoop")

\* "L: ildc ..." followed by "jmp L" is reported
C3_Witness ==
    /\ pc = "validate" /\ exc = "LabelInfiniteLoop"
    /\ OpAt(validate_index) = "jmp"
    /\ OpAt(label_map[ArgAt(validate_index)]) = "ildc"

----------------------------------------------------------------------------
(* C4: UnknownLabel *)

SomeLabelAbsent == \E i \in JumpIndices : ~LabelKnown(i)

\* the check of the jmp at index k reports a loop
LoopReported(k) ==
    OpAt(k) = "jmp" /\ LabelKnown(k) /\ FirstJumpIsJmpTo(ArgAt(k))

\* C4 as stated: once the validation of a built program is over, it ended
\* with UnknownLabel exactly when some jump names a label that is not in
\* the label table; then nothing has executed, and a jmp with an absent
\* label gets UnknownLabel, not the loop verdict.
C4_UnknownLabelIffAbsent ==
    ValidationOver =>
        /\ (pc = "validate" /\ exc = "UnknownLabel") <=> SomeLabelAbsent
        /\ exc = "UnknownLabel" => NothingExecuted

\* C4 amended: once the validation of a built program is over, it ended
\* with UnknownLabel exactly when some jump names an absent label and no
\* jmp before the first such jump is reported as an infinite loop; with an
\* absent label validation never ends well; when UnknownLabel is raised it
\* is at a jump whose label is absent and nothing has executed.
C4_UnknownLabelUnlessLoopFirst ==
    ValidationOver =>
        /\ (pc = "validate" /\ exc = "UnknownLabel") <=>
              \E i \in JumpIndices :
                  /\ ~LabelKnown(i)
                  /\ \A k \in 0..(i - 1) :
                        /\ IsBaseJump(OpAt(k)) => LabelKnown(k)
                        /\ ~LoopReported(k)
        /\ SomeLabelAbsent =>
              pc = "validate" /\ exc \in {"UnknownLabel", "LabelInfiniteLoop"}
        /\ exc = "UnknownLabel" =>
              /\ validate_index \in JumpIndices
              /\ ~LabelKnown(validate_index)
              /\ NothingExecuted

\* a forward reference was accepted, then a jmp to an absent label failed
C4_Witness ==
    /\ FailedAt(1, "UnknownLabel")
    /\ OpAt(1) = "jmp"
    /\ IsBaseJump(OpAt(0)) /\ LabelKnown(0) /\ label_map[ArgAt(0)] > 0
    /\ NothingExecuted

----------------------------------------------------------------------------
(* C5: conditional jumps *)

\* the conditional jump at the end of `executed` found v on top: is it taken
Taken(op, v) == IF op = "jz" THEN v = 0 ELSE v # 0

\* C5: validation never reports a conditional jump whose label is defined
\* (so with all labels defined and no jmp reported as a loop, validation
\* raises nothing); a jz or jnz run on a non-empty stack pops exactly one
\* value, and the pointer becomes the index of its label when the jump is
\* taken (value 0 for jz, non-zero for jnz) and advances by one otherwise.
C5_ConditionalJump ==
    /\ (pc = "validate" /\ exc # "none") =>
          /\ validate_index \in JumpIndices
          /\ OpAt(validate_index) \in {"jz", "jnz"} =>
                exc = "UnknownLabel" /\ ~LabelKnown(validate_index)
    /\ (Built /\ AllLabelsDefined /\ \A k \in Indices : ~LoopReported(k)) =>
          ~(pc = "validate" /\ exc # "none")
    /\ ( /\ pc = "execute" /\ NumExecuted >= 1
         /\ LastOp \in {"jz", "jnz"}
         /\ StackBefore(NumExecuted).top # <<>> ) =>
          LET before == StackBefore(NumExecuted).top IN
          /\ exc = "none"
          /\ stack.top = Tail(before)
          /\ next_instruction_index =
                IF Taken(LastOp, Head(before))
                THEN label_map[ArgAt(LastIndex)] ELSE LastIndex + 1

\* "L: jz L" ran with 0 on top and the pointer is at L again
C5_Witness ==
    /\ pc = "execute" /\ exc = "none" /\ NumExecuted >= 1
    /\ LastOp = "jz"
    /\ label_map[ArgAt(LastIndex)] = LastIndex
    /\ Head(StackBefore(NumExecuted).top) = 0
    /\ next_instruction_index = LastIndex

----------------------------------------------------------------------------
(* C6: two label tokens in a row *)

NumTokens == Len(tokens)
LastIsLabel == NumTokens >= 1 /\ tokens[NumTokens].is_label
LastTwoAreLabels == NumTokens >= 2 /\ tokens[NumTokens - 1].is_label /\ LastIsLabel

\* C6: when the scanner has yielded a label token right after a label
\* token, the build has failed with ExpectedNonLabel, whichever words the
\* two tokens came from; the first of the two is still pending and not in
\* the label table, and no entry of the table was made for them (every
\* entry belongs to an instruction added before).  While the build runs
\* there is a pending label exactly when the last token was a label, it is
\* one label, and it is not in the label table.
C6_LabelAfterLabel ==
    /\ LastTwoAreLabels =>
          /\ pc = "build" /\ exc = "ExpectedNonLabel"
          /\ unregistered_label = Some(tokens[NumTokens - 1].token.val)
          /\ tokens[NumTokens - 1].token.val \notin DOMAIN label_map
          /\ \A l \in DOMAIN label_map : label_map[l] < NumInstructions
    /\ Len(unregistered_label) <= 1
    /\ (pc = "build" /\ exc = "none") =>
          /\ unregistered_label # None <=> LastIsLabel
          /\ unregistered_label # None =>
                /\ unregistered_label = Some(tokens[NumTokens].token.val)
                /\ unregistered_label[1] \notin DOMAIN label_map

\* the chained word A:B:ildc was rejected at its second label
C6_Witness ==
    /\ pc = "build" /\ exc = "ExpectedNonLabel"
    /\ LastTwoAreLabels
    /\ tokens[NumTokens - 1].token.val = "A" /\ tokens[NumTokens].token.val = "B"
    /\ gen.w = <<"ildc">>
    /\ label_map = EmptyMap

----------------------------------------------------------------------------
(* C8: programs without jumps run in program order *)

\* C8: in a validated program of n instructions without jz, jnz and jmp,
\* the k-th executed instruction is the one at index k-1; while no
\* exception was raised the pointer is the number of instructions run; an
\* exception leaves the pointer at the instruction that raised it; and the
\* loop is left only with the pointer at n, after exactly n instructions.
C8_ProgramOrder ==
    (Validated /\ JumpIndices = {}) =>
        /\ \A k \in 1..NumExecuted : executed[k].index = k - 1
        /\ NumExecuted <= NumInstructions
        /\ (pc = "execute" /\ exc = "none") => next_instruction_index = NumExecuted
        /\ (pc = "execute" /\ exc # "none") => next_instruction_index = NumExecuted - 1
        /\ pc \in {"print", "done"} =>
              /\ NumExecuted = NumInstructions
              /\ next_instruction_index = NumInstructions

\* a program of three instructions without jumps ran to its end
C8_Witness ==
    /\ pc = "done" /\ JumpIndices = {}
    /\ NumInstructions = 3 /\ NumExecuted = 3
    /\ \A k \in 1..3 : executed[k].index = k - 1

----------------------------------------------------------------------------
(* C9: EmptyStack *)

\* the number of values an instruction pops
Pops(op) ==
    CASE op \in {"pop", "dup", "jz", "jnz", "load"} -> 1
      [] op \in {"iadd", "isub", "imul", "idiv", "imod", "swap", "store"} -> 2
      [] OTHER -> 0

\* C9: an instruction run on a stack with fewer values than it pops is the
\* last one run: main ended with EmptyStack at that instruction and printed
\* nothing.  EmptyStack is raised only after the file was read to its end
\* and every instruction was validated.
C9_EmptyStack ==
    /\ \A k \in 1..NumExecuted :
          Len(StackBefore(k).top) < Pops(OpAt(executed[k].index)) =>
              /\ k = NumExecuted
              /\ pc = "execute" /\ exc = "EmptyStack"
              /\ next_instruction_index = executed[k].index
              /\ result = None
    /\ exc = "EmptyStack" =>
          /\ pc \in {"execute", "print"}
          /\ gen.finished /\ unregistered_label = None
          /\ validate_index = NumInstructions

\* ildc 5; pop; pop fails at the second pop
C9_Witness ==
    /\ pc = "execute" /\ exc = "EmptyStack"
    /\ NumInstructions = 3 /\ NumExecuted = 3
    /\ OpAt(0) = "ildc" /\ OpAt(1) = "pop" /\ OpAt(2) = "pop"
    /\ executed[3].index = 2 /\ StackBefore(2).top = <<5>>

----------------------------------------------------------------------------
(* C10: the result *)

\* C10: the step that leaves the execution loop (pointer at or past the end
\* of the list) prints the value on top of the stack and nothing else, or
\* ends main with EmptyStack and no result when the stack is empty; a
\* result exists only once main is done, and it never changes.
C10_ResultIsStackTop ==
    /\ [](result # None <=> pc = "done")
    /\ [][ /\ (pc = "execute" /\ exc = "none"
              /\ next_instruction_index >= NumInstructions) =>
                 IF stack.top = <<>>
                 THEN pc' = "print" /\ exc' = "EmptyStack" /\ result' = None
                 ELSE pc' = "done" /\ exc' = "none"
                      /\ result' = Some(Head(stack.top))
           /\ result # None => result' = result ]_vars

\* a value was printed while other values were below it
C10_Witness ==
    /\ pc = "done" /\ exc = "none"
    /\ result = Some(5)
    /\ stack.top = <<0>>
    /\ next_instruction_index = NumInstructions

----------------------------------------------------------------------------
(* Vocabulary of the build properties *)

\* the generator ran off the end of the file (it did not stop at a raise)
StreamEnded == gen.finished /\ gen.i >= Len(file)

\* token k was read as the operand of the instruction named by token k-1
RECURSIVE OperandAt(_)
OperandAt(k) ==
    /\ k >= 2
    /\ ~tokens[k - 1].is_label
    /\ tokens[k - 1].token.val \in operators
    /\ args_needed[tokens[k - 1].token.val] = 1
    /\ ~OperandAt(k - 1)

\* the positions of the tokens read as instruction names
InstrTokens == {k \in 1..NumTokens : ~tokens[k].is_label /\ ~OperandAt(k)}

----------------------------------------------------------------------------
(* C11: a label at the end of the token stream *)

\* C11: when the token stream has ended and its last token is a label that
\* is pending, the build has failed with DanglingLabel and nothing of the
\* validation and of the execution has happened; DanglingLabel is raised in
\* no other state, so not when the stream ends after a complete instruction.
C11_DanglingLabel ==
    /\ ( /\ StreamEnded /\ LastIsLabel
         /\ unregistered_label = Some(tokens[NumTokens].token.val) ) =>
          /\ pc = "build" /\ exc = "DanglingLabel"
          /\ validate_index = 0 /\ memo = EmptyMap
          /\ NothingExecuted
    /\ exc = "DanglingLabel" =>
          /\ pc = "build" /\ StreamEnded
          /\ LastIsLabel /\ unregistered_label # None
    /\ (StreamEnded /\ unregistered_label = None) => exc # "DanglingLabel"

\* a label after a complete instruction ends the text
C11_Witness ==
    /\ pc = "build" /\ exc = "DanglingLabel"
    /\ NumInstructions = 1 /\ OpAt(0) = "pop"
    /\ NumTokens = 2 /\ tokens[2].is_label
    /\ label_map = EmptyMap

----------------------------------------------------------------------------
(* C12: the label table *)

\* the label tokens named l that main accepted as the pending label
AcceptedLabelTokens(l) ==
    {k \in 1..NumTokens :
        /\ tokens[k].is_label /\ tokens[k].token.val = l
        /\ ~OperandAt(k)
        /\ ~(k = NumTokens /\ exc \in {"DuplicateLabel", "ExpectedNonLabel"})}

\* every entry of the label table was made for exactly one label token
OneDefinitionPerLabel ==
    \A l \in DOMAIN label_map : Cardinality(AcceptedLabelTokens(l)) = 1

\* the last token is a label whose name is in the label table
LastLabelIsKnown == LastIsLabel /\ tokens[NumTokens].token.val \in DOMAIN label_map

\* C12 as stated: every label in the table has one definition, and a label
\* token whose name is already in the label table ends the build with
\* DuplicateLabel.
C12_KnownLabelIsDuplicate ==
    /\ OneDefinitionPerLabel
    /\ LastLabelIsKnown => pc = "build" /\ exc = "DuplicateLabel"

\* C12 amended: every label in the table has one definition and its index
\* never changes once recorded; a label token whose name is already in the
\* label table ends the build, with DuplicateLabel when it is read as the
\* start of an instruction while no label is pending, and with
\* ExpectedNonLabel when a label is pending or it is read as an operand.
C12_DuplicateUnlessNonLabelExpected ==
    /\ [](OneDefinitionPerLabel)
    /\ [](LastLabelIsKnown =>
            /\ pc = "build"
            /\ exc = IF unregistered_label = None /\ ~OperandAt(NumTokens)
                     THEN "DuplicateLabel" ELSE "ExpectedNonLabel")
    /\ [][\A l \in DOMAIN label_map :
            l \in DOMAIN label_map' /\ label_map'[l] = label_map[l]]_vars

\* the second definition of a label that belongs to an instruction
C12_Witness ==
    /\ pc = "build" /\ exc = "DuplicateLabel"
    /\ NumInstructions = 1 /\ label_map = Put(EmptyMap, "A", 0)
    /\ tokens[NumTokens].token.val = "A"
    /\ unregistered_label = None

----------------------------------------------------------------------------
(* C13: the operands of an instruction *)

\* the j-th smallest element of a set of numbers
Nth(S, j) == CHOOSE k \in S : Cardinality({c \in S : c < k}) = j - 1

\* the last token names an instruction of arity 1 and is no operand itself
OperandAwaited ==
    /\ NumTokens \in InstrTokens
    /\ tokens[NumTokens].token.val \in operators
    /\ args_needed[tokens[NumTokens].token.val] = 1

\* the value an operand token has in its instruction
OperandValue(op, text) == IF op = "ildc" THEN IntOf[text] ELSE text

\* C13: the j-th instruction was built from the j-th token read as an
\* instruction name and from exactly as many following tokens as its arity
\* (1 for ildc, jz, jnz, jmp, 0 otherwise); a label token in an operand
\* position ends the build with ExpectedNonLabel; when the stream ends
\* where an operand is awaited the build ends with MissingArguments, with
\* or without a pending label, and MissingArguments is raised nowhere else.
C13_OperandsByArity ==
    /\ NumInstructions <= Cardinality(InstrTokens)
    /\ exc = "none" => NumInstructions = Cardinality(InstrTokens)
    /\ \A j \in 1..NumInstructions :
          LET k  == Nth(InstrTokens, j)
              op == instructions[j].op
          IN  /\ op = tokens[k].token.val
              /\ Len(instructions[j].args) = args_needed[op]
              /\ args_needed[op] = IF IsBaseJump(op) \/ op = "ildc" THEN 1 ELSE 0
              /\ args_needed[op] = 1 =>
                    /\ OperandAt(k + 1) /\ ~tokens[k + 1].is_label
                    /\ instructions[j].args[1].val =
                          OperandValue(op, tokens[k + 1].token.val)
              /\ (args_needed[op] = 0 /\ k < NumTokens) => ~OperandAt(k + 1)
    /\ (NumTokens >= 1 /\ OperandAt(NumTokens) /\ tokens[NumTokens].is_label) =>
          /\ pc = "build" /\ exc = "ExpectedNonLabel"
          /\ NumInstructions = Cardinality(InstrTokens) - 1
    /\ OperandAwaited =>
          /\ pc = "build" /\ exc \in {"MissingArguments", "MissingLabel"}
          /\ exc = "MissingArguments" <=> StreamEnded
          /\ NumInstructions = Cardinality(InstrTokens) - 1
    /\ exc = "MissingArguments" => pc = "build" /\ OperandAwaited /\ StreamEnded

\* the stream ended at the operand of an instruction that has a pending label
C13_Witness ==
    /\ pc = "build" /\ exc = "MissingArguments"
    /\ unregistered_label = Some("A")
    /\ OperandAwaited /\ StreamEnded
    /\ NumInstructions = 1

----------------------------------------------------------------------------
(* C14: binary arithmetic *)

ArithOps == {"iadd", "isub", "imul", "idiv", "imod"}

\* q and r are the quotient and the remainder of b by a with the quotient
\* rounded toward minus infinity: the remainder has the sign of a
IsFloorDivision(b, a, q, r) ==
    /\ b = q * a + r
    /\ a > 0 => (0 <= r /\ r < a)
    /\ a < 0 => (a < r /\ r <= 0)

\* v is what the operator makes of a, popped first, and b, popped second
IsResult(op, a, b, v) ==
    CASE op = "iadd" -> v = a + b
      [] op = "isub" -> v = b - a
      [] op = "imul" -> v = a * b
      [] op = "idiv" -> IsFloorDivision(b, a, v, b - v * a)
      [] op = "imod" -> \E q \in (0 - 50)..50 : IsFloorDivision(b, a, q, v)

ProgramFile(ops) == [k \in 1..Len(ops) |-> Line(<<>>, ops[k][1], ops[k][2])]

\* the result of the program, once it is done, is v
Yields(ops, v) ==
    file = ProgramFile(ops) =>
        /\ exc = "none"
        /\ pc = "done" => result = Some(v)

\* C14: a binary arithmetic instruction run on at least two values, the
\* divisor of idiv and imod not 0, pops a and then b and pushes one value:
\* a+b, b-a, a*b, the floor of b/a, or b mod a with the sign of a; and the
\* four example programs give 3, -4, 1 and n+m.
C14_BinaryArithmetic ==
    /\ ( /\ pc = "execute" /\ NumExecuted >= 1
         /\ LastOp \in ArithOps
         /\ Len(StackBefore(NumExecuted).top) >= 2
         /\ LastOp \in {"idiv", "imod"} => StackBefore(NumExecuted).top[1] # 0 ) =>
          LET before == StackBefore(NumExecuted).top
          IN  /\ exc = "none"
              /\ Len(stack.top) = Len(before) - 1
              /\ Tail(stack.top) = Tail(Tail(before))
              /\ IsResult(LastOp, before[1], before[2], Head(stack.top))
              /\ next_instruction_index = LastIndex + 1
    /\ Yields(<< <<"ildc", <<"7">>>>, <<"ildc", <<"2">>>>, <<"idiv", <<>>>> >>, 3)
    /\ Yields(<< <<"ildc", <<"-7">>>>, <<"ildc", <<"2">>>>, <<"idiv", <<>>>> >>, 0 - 4)
    /\ Yields(<< <<"ildc", <<"-7">>>>, <<"ildc", <<"2">>>>, <<"imod", <<>>>> >>, 1)
    /\ \A n \in {"7", "2", "-7", "0"}, m \in {"7", "2", "-7", "0"} :
          /\ Yields(<< <<"ildc", <<n>>>>, <<"ildc", <<m>>>>, <<"iadd", <<>>>> >>,
                    IntOf[n] + IntOf[m])
          /\ ( /\ file = ProgramFile(<< <<"ildc", <<n>>>>, <<"ildc", <<m>>>>,
                                       <<"iadd", <<>>>> >>)
               /\ pc = "execute" /\ NumExecuted = 3 ) =>
                 stack.top = <<IntOf[n] + IntOf[m]>>

\* ildc -7; ildc 2; idiv printed -4
C14_Witness ==
    /\ file = ProgramFile(<< <<"ildc", <<"-7">>>>, <<"ildc", <<"2">>>>,
                             <<"idiv", <<>>>> >>)
    /\ pc = "done" /\ result = Some(0 - 4)
    /\ NumExecuted = 3

----------------------------------------------------------------------------
(* Vocabulary of the scanner properties *)

\* the positions (from 1) of the piece c in the word w
PositionsOf(w, c) == {k \in 1..Len(w) : w[k] = c}

Min(S) == CHOOSE k \in S : \A m \in S : k <= m
Max(S) == CHOOSE k \in S : \A m \in S : k >= m

\* the word cut at its first "#"
Truncated(w) ==
    IF PositionsOf(w, "#") = {} THEN w
    ELSE SubSeq(w, 1, Min(PositionsOf(w, "#")) - 1)

\* the text between the colon at position k and the colon before it
PrefixOfColon(w, k) ==
    SubSeq(w, Max({0} \cup {c \in PositionsOf(w, ":") : c < k}) + 1, k - 1)

\* the colons with nothing before them
EmptyPrefixColons(w) == {k \in PositionsOf(w, ":") : PrefixOfColon(w, k) = <<>>}

\* the colons before the first colon with nothing before it
LabelColons(w) ==
    {k \in PositionsOf(w, ":") : \A b \in EmptyPrefixColons(w) : k < b}

\* the text after the last colon
TextAfterColons(w) ==
    SubSeq(w, Max({0} \cup PositionsOf(w, ":")) + 1, Len(w))

\* what a word without "#" on line i is to yield: a label per colon up to
\* the first colon with an empty prefix, then the text after the last colon
WordTokens(w, i) ==
    [j \in 1..Cardinality(LabelColons(w)) |->
        [token |-> Token(PrefixOfColon(w, Nth(LabelColons(w), j))[1], i),
         is_label |-> TRUE]]
    \o (IF EmptyPrefixColons(w) = {} /\ TextAfterColons(w) # <<>>
        THEN <<[token |-> Token(TextAfterColons(w)[1], i), is_label |-> FALSE]>>
        ELSE <<>>)

----------------------------------------------------------------------------
(* C15: the tokens of a word *)

\* the word the generator is suspended in, cut at its "#"
CurrentWord == Truncated(file[gen.i + 1][gen.j])

\* how many pieces of the current word the generator is past
ConsumedPieces == Len(CurrentWord) - Len(gen.w)

\* how many tokens the current word should have yielded by now
DueTokens ==
    IF exc = "MissingLabel" \/ gen.w = <<>>
    THEN Len(WordTokens(CurrentWord, gen.i))
    ELSE Cardinality({k \in PositionsOf(CurrentWord, ":") : k <= ConsumedPieces})

\* C15: whenever the generator is suspended in a word or has raised in it,
\* the tokens it yielded last are, in order, the label tokens of the colons
\* of that word (cut at its "#") it is past, each with the text since the
\* colon before, and then, when the word is finished, the non-label token
\* of the text after the last colon if there is such text; MissingLabel is
\* raised exactly at a colon with nothing before it, after the labels of
\* the colons before it and with no token after them.
C15_TokensOfWord ==
    ((NumTokens >= 1 /\ ~gen.finished) \/ exc = "MissingLabel") =>
        /\ gen.i < Len(file) /\ gen.j >= 1
        /\ gen.w = SubSeq(CurrentWord, ConsumedPieces + 1, Len(CurrentWord))
        /\ DueTokens <= NumTokens
        /\ SubSeq(tokens, NumTokens - DueTokens + 1, NumTokens)
              = SubSeq(WordTokens(CurrentWord, gen.i), 1, DueTokens)
        /\ exc = "MissingLabel" =>
              /\ EmptyPrefixColons(CurrentWord) # {}
              /\ ConsumedPieces = Min(EmptyPrefixColons(CurrentWord))
        /\ (exc = "none" /\ gen.w # <<>>) =>
              /\ DueTokens >= 1
              /\ ConsumedPieces \in LabelColons(CurrentWord)
        /\ (exc = "none" /\ gen.w = <<>>) =>
              /\ EmptyPrefixColons(CurrentWord) = {}
              /\ DueTokens >= 1

\* the word A::x gave the label A and then MissingLabel
C15_Witness ==
    /\ exc = "MissingLabel"
    /\ CurrentWord = <<"A", ":", ":", "x">>
    /\ NumTokens >= 1
    /\ tokens[NumTokens] = [token |-> Token("A", gen.i), is_label |-> TRUE]
    /\ gen.w = <<"x">>

----------------------------------------------------------------------------
(* C16: comments *)

HasHash(w) == PositionsOf(w, "#") # {}

\* the words of a line up to and with its first word with a "#"
LiveCount(line) ==
    IF \A j \in 1..Len(line) : ~HasHash(line[j]) THEN Len(line)
    ELSE Min({j \in 1..Len(line) : HasHash(line[j])})

\* the tokens due from word j of line i on (both from 1): those of the live
\* words, each cut at its "#", up to the first word with an empty label name
RECURSIVE StreamFrom(_, _)
StreamFrom(i, j) ==
    IF i > Len(file) THEN <<>>
    ELSE IF j > LiveCount(file[i]) THEN StreamFrom(i + 1, 1)
    ELSE LET w == Truncated(file[i][j])
         IN  WordTokens(w, i - 1)
             \o (IF EmptyPrefixColons(w) # {} THEN <<>> ELSE StreamFrom(i, j + 1))

ExpectedStream == StreamFrom(1, 1)

SomeLiveWordFails ==
    \E i \in 1..Len(file) : \E j \in 1..LiveCount(file[i]) :
        EmptyPrefixColons(Truncated(file[i][j])) # {}

\* the pieces of the file that are neither ":" nor "#"
PlainPieces ==
    UNION {UNION {{file[i][j][k] : k \in 1..Len(file[i][j])} :
                      j \in 1..Len(file[i])} : i \in 1..Len(file)}
    \ {":", "#"}

\* C16: the tokens yielded are, in order, those of the words of each line up
\* to and with its first word with a "#", that word cut at the "#" (nothing
\* when the "#" is its first character, else its labels and text before the
\* "#"); the later words of the line yield nothing and the next line starts
\* afresh; every token text is a piece of the file with no "#" or ":" in it.
C16_Comments ==
    /\ NumTokens <= Len(ExpectedStream)
    /\ tokens = SubSeq(ExpectedStream, 1, NumTokens)
    /\ pc = "scanned" => (tokens = ExpectedStream /\ ~SomeLiveWordFails)
    /\ exc = "MissingLabel" => (tokens = ExpectedStream /\ SomeLiveWordFails)
    /\ \A n \in 1..NumTokens : tokens[n].token.val \in PlainPieces

\* line 1 is A:x#B: and a second word, line 2 the word A:, and the scan ended
\* with the label A and the text x of line 1 and the label A of line 2
C16_Witness ==
    /\ pc = "scanned"
    /\ Len(file) = 2
    /\ file[1] = <<<<"A", ":", "x", "#", "B", ":">>, <<"A", ":">>>>
    /\ file[2] = <<<<"A", ":">>>>
    /\ tokens = <<[token |-> Token("A", 0), is_label |-> TRUE],
                  [token |-> Token("x", 0), is_label |-> FALSE],
                  [token |-> Token("A", 1), is_label |-> TRUE]>>

----------------------------------------------------------------------------
(* C17: a cycle of two jumps *)

\* A: jmp B
\* B: jmp A
TwoJumpCycle == <<Line(<<"A">>, "jmp", <<"B">>), Line(<<"B">>, "jmp", <<"A">>)>>

\* the driver is as it was constructed but for the pointer
DriverUntouched == stack = EmptyStackObj /\ store = EmptyMap

\* C17: the program A: jmp B / B: jmp A raises nothing in the build and in
\* validation, never leaves the execution loop and never prints; while it
\* runs, the pointer is 0 or 1, the instructions run are 0, 1, 0, 1, ..., the
\* stack and the store stay as constructed, and every step of the execution
\* loop moves the pointer to the other index (so the driver returns to the
\* state it started from every two steps).
C17_TwoJumpCycleNeverHalts ==
    /\ [](file = TwoJumpCycle =>
            /\ exc = "none"
            /\ pc \in {"build", "validate", "execute"}
            /\ result = None
            /\ DriverUntouched
            /\ pc = "execute" =>
                  /\ instructions = <<[op |-> "jmp", args |-> <<Token("B", 0)>>],
                                      [op |-> "jmp", args |-> <<Token("A", 1)>>]>>
                  /\ label_map = [l \in {"A", "B"} |-> IF l = "A" THEN 0 ELSE 1]
                  /\ next_instruction_index = NumExecuted % 2
                  /\ \A k \in 1..NumExecuted : executed[k].index = (k - 1) % 2)
    /\ [][(file = TwoJumpCycle /\ pc = "execute") =>
            /\ pc' = "execute"
            /\ exc' = "none"
            /\ next_instruction_index' = 1 - next_instruction_index
            /\ NumExecuted' = NumExecuted + 1]_vars

\* the cycle was run twice over
C17_Witness ==
    /\ file = TwoJumpCycle
    /\ pc = "execute"
    /\ NumExecuted >= 4
    /\ next_instruction_index = 0

----------------------------------------------------------------------------
(* C18: the memo of the loop check *)

\* the verdict on label L computed with nothing cached
FreshVerdict(L) ==
    check_for_definite_infinite_loop(L, instructions, label_map, EmptyMap).verdict

\* the verdict on label L returned with the memo as it is now
CachedVerdict(L) ==
    check_for_definite_infinite_loop(L, instructions, label_map, memo).verdict

\* what validating instruction i raises with nothing cached
UncachedFault(i) ==
    validate_args(OpAt(i), instructions[i + 1].args, instructions, label_map,
                  EmptyMap).exc

\* C18: in a built program every label in the memo is in the label table
\* and has the verdict a computation with an empty memo gives, and so has
\* the verdict returned for it from the memo; the validation pass went past
\* an instruction only if validating it with an empty memo raises nothing,
\* it stopped at an instruction with the exception validating it with an
\* empty memo raises, and it ended well only if no instruction raises
\* anything with an empty memo.
C18_MemoIsTransparent ==
    Built =>
        /\ \A L \in DOMAIN memo :
              /\ L \in DOMAIN label_map
              /\ memo[L] = FreshVerdict(L)
              /\ CachedVerdict(L) = FreshVerdict(L)
        /\ \A i \in Indices :
              /\ Passed(i) => UncachedFault(i) = "none"
              /\ \A e \in {"UnknownLabel", "LabelInfiniteLoop"} :
                    FailedAt(i, e) => UncachedFault(i) = e
        /\ (pc = "validate" /\ exc # "none") =>
              /\ validate_index \in Indices
              /\ exc \in {"UnknownLabel", "LabelInfiniteLoop"}
        /\ Validated => \A i \in Indices : UncachedFault(i) = "none"

\* two jmp to one label were validated, the second from the memo, and the
\* validation pass ended well
C18_Witness ==
    /\ Validated
    /\ NumInstructions >= 2
    /\ OpAt(0) = "jmp" /\ OpAt(1) = "jmp"
    /\ ArgAt(0) = ArgAt(1)
    /\ DOMAIN memo = {ArgAt(0)} /\ ~memo[ArgAt(0)]

----------------------------------------------------------------------------
(* C19: what the loop verdict means for an execution *)

\* the execution loop of main run from driver state d for at most k steps
\* leaves the loop without an exception
RECURSIVE RunHalts(_, _)
RunHalts(d, k) ==
    IF d.next_instruction_index >= NumInstructions THEN TRUE
    ELSE IF k = 0 THEN FALSE
    ELSE LET o == step(d, instructions, label_map)
         IN  IF o.exc # "none" THEN FALSE
             ELSE RunHalts([stack |-> o.stack, store |-> o.store,
                            next_instruction_index |-> o.next_instruction_index],
                           k - 1)

\* the stacks of at most two values 0 and 1
LoopStacks ==
    {EmptyStackObj}
    \cup {push(EmptyStackObj, v) : v \in {0, 1}}
    \cup {push(push(EmptyStackObj, v), u) : v \in {0, 1}, u \in {0, 1}}

DriverAt(st, p) == [stack |-> st, store |-> EmptyMap, next_instruction_index |-> p]

\* the label of the jmp validation stopped at
ReportedLabel == ArgAt(validate_index)

\* the first jump at or after index a
FirstJumpFrom(a) == Min({j \in Indices : j >= a /\ IsBaseJump(OpAt(j))})

\* C19: when validation raised LabelInfiniteLoop at a jmp L, the index of L
\* is the index of an instruction, a jump follows at or after it and the
\* first such jump is a jmp L; from every index between L and that jmp and
\* with every stack, a step of the driver raises or moves the pointer to the
\* next index of that range (from the jmp: back to the index of L); and the
\* execution loop started at the index of L with any stack does not leave
\* the loop without an exception within MaxSteps steps.
C19_LoopVerdictIsSound ==
    (pc = "validate" /\ exc = "LabelInfiniteLoop") =>
        /\ validate_index \in Indices
        /\ OpAt(validate_index) = "jmp"
        /\ ReportedLabel \in DOMAIN label_map
        /\ label_map[ReportedLabel] \in Indices
        /\ LET a == label_map[ReportedLabel]
           IN  /\ \E j \in Indices : j >= a /\ IsBaseJump(OpAt(j))
               /\ OpAt(FirstJumpFrom(a)) = "jmp"
               /\ ArgAt(FirstJumpFrom(a)) = ReportedLabel
               /\ \A p \in a..FirstJumpFrom(a) : \A st \in LoopStacks :
                     LET o == step(DriverAt(st, p), instructions, label_map)
                     IN  \/ o.exc # "none"
                         \/ o.next_instruction_index =
                               IF p = FirstJumpFrom(a) THEN a ELSE p + 1
               /\ \A st \in LoopStacks : \A k \in 0..MaxSteps :
                     ~RunHalts(DriverAt(st, a), k)

\* the loop A: pop / jmp A was reported: run from A it raises on the empty
\* stack and goes round with one value on the stack
C19_Witness ==
    /\ pc = "validate" /\ exc = "LabelInfiniteLoop"
    /\ ReportedLabel = "A"
    /\ label_map["A"] \in Indices
    /\ OpAt(label_map["A"]) = "pop"
    /\ FirstJumpFrom(label_map["A"]) = label_map["A"] + 1
    /\ step(DriverAt(EmptyStackObj, label_map["A"]), instructions,
            label_map).exc # "none"
    /\ step(DriverAt(push(EmptyStackObj, 0), label_map["A"]), instructions,
            label_map).exc = "none"

----------------------------------------------------------------------------
(* C20: the indices in the label table *)

\* the one label token that defined l
DefiningToken(l) == CHOOSE k \in AcceptedLabelTokens(l) : TRUE

\* how many instruction names were read before token k
InstructionsBefore(k) == Cardinality({t \in InstrTokens : t < k})

\* the pointer after the k-th executed instruction
PointerAfter(k) ==
    IF k < NumExecuted THEN executed[k + 1].index ELSE next_instruction_index

\* the k-th executed instruction is a jump that was taken
JumpTaken(k) ==
    LET op == OpAt(executed[k].index)
        st == StackBefore(k).top
    IN  \/ op = "jmp"
        \/ op \in {"jz", "jnz"} /\ st # <<>> /\ Taken(op, Head(st))

\* C20: once the build has ended well, every label of the label table has
\* one defining label token, the token after it is an instruction name, and
\* the label maps to the number of instructions read before it, which is
\* the index of that instruction and is below the length of the list; in
\* every state of the execution the pointer is between 0 and the length of
\* the list, and after every taken jump it is the index of an instruction,
\* the one the label of the jump maps to.
C20_LabelIndicesInRange ==
    /\ Built =>
          \A l \in DOMAIN label_map :
              /\ Cardinality(AcceptedLabelTokens(l)) = 1
              /\ DefiningToken(l) + 1 \in InstrTokens
              /\ label_map[l] = InstructionsBefore(DefiningToken(l))
              /\ label_map[l] \in Indices
              /\ OpAt(label_map[l]) = tokens[DefiningToken(l) + 1].token.val
    /\ Validated =>
          /\ next_instruction_index \in 0..NumInstructions
          /\ \A k \in 1..NumExecuted :
                /\ executed[k].index \in Indices
                /\ JumpTaken(k) =>
                      /\ PointerAfter(k) \in Indices
                      /\ PointerAfter(k) = label_map[ArgAt(executed[k].index)]

\* a jz to a label on the last line of three was taken
C20_Witness ==
    /\ Validated
    /\ NumInstructions = 3
    /\ NumExecuted >= 2
    /\ OpAt(executed[2].index) = "jz"
    /\ JumpTaken(2)
    /\ PointerAfter(2) = 2
    /\ label_map[ArgAt(executed[2].index)] = 2

====
